---------------------------- MODULE Spec2Model ----------------------------
(***************************************************************************)
(* A model of lib/lib.js of uncss: the rendering wrapper phantom_eval, the *)
(* stylesheet loader mapReadFiles, the link extractor extractStylesheets   *)
(* and the pruning engine filterUnusedRules / filterUnusedSelectors.       *)
(*                                                                         *)
(* A JavaScript string is a sequence of one-character strings.  An object  *)
(* that the code updates in place (a node of the stylesheet tree, a RegExp *)
(* of the ignore list) keeps its identity: tree nodes live in `heap` and   *)
(* are referred to by their index.                                         *)
(***************************************************************************)
EXTENDS Integers, Sequences, FiniteSets, TLC

VARIABLES
    \* filterUnusedSelectors' catch block, on its own (SpecNorm)
    selector,    \* the selector on which the raw query raised
    temp,        \* what lines 136-147 leave in `temp`, or the TypeError
    npc,         \* "caught" before the block has run, "done" after
    \* the pruning engine (Spec)
    pc,          \* "ready", then "returned" / "thrown", then "returned2" / "thrown2"
    heap,        \* the nodes of the stylesheet tree, by identity
    stylesheet,  \* the caller's stylesheet.rules: a sequence of node identities
    doms,        \* the DOM list
    ignore,      \* the ignore list: strings and RegExp objects
    result,      \* the rules of the stylesheet the first call returned
    second,      \* the rules of the stylesheet the second call returned
    first,       \* the tree the first call returned, as it was then (history)
    before,      \* the caller's view before the first call (history)
    \* extractStylesheets (SpecExtract)
    page,        \* the elements of the page, in document order
    options,     \* options.media
    hrefs,       \* what extractStylesheets returned
    xpc,         \* "ready", then "returned"
    \* phantom_eval (SpecPhantom)
    child,       \* what execFile hands its callback: err, stdout, stderr
    calls,       \* the calls of phantom_eval's callback so far
    ppc,         \* "running", then "done" or "TypeError"
    \* mapReadFiles (SpecMap)
    files,       \* the sources, in the caller's order
    disk,        \* the local files that exist
    pending,     \* the indexes of the reads and requests in flight
    results,     \* async.map's results array
    completed,   \* async.map's count of iterations done without error
    live,        \* FALSE once async.map has replaced its callback by a no-op
    mapCalls,    \* the calls of mapReadFiles' callback so far
    history,     \* each completion, in the order they happened (history)
    mpc          \* "ready", then "started"

normVars == <<selector, temp, npc>>
engineVars ==
    <<pc, heap, stylesheet, doms, ignore, result, second, first, before>>
extractVars == <<page, options, hrefs, xpc>>
phantomVars == <<child, calls, ppc>>
mapVars ==
    <<files, disk, pending, results, completed, live, mapCalls, history, mpc>>
vars == <<normVars, engineVars, extractVars, phantomVars, mapVars>>

\* a specification leaves the variables of the other functions as they are
NoTemp == [ok |-> FALSE, value |-> <<>>]
IdleNorm == selector = <<>> /\ temp = NoTemp /\ npc = "idle"
IdleEngine ==
    /\ pc = "idle" /\ heap = <<>> /\ stylesheet = <<>> /\ doms = <<>>
    /\ ignore = <<>> /\ result = <<>> /\ second = <<>> /\ first = <<>>
    /\ before = <<>>
IdleExtract == page = <<>> /\ options = <<>> /\ hrefs = <<>> /\ xpc = "idle"
IdlePhantom == child = <<>> /\ calls = <<>> /\ ppc = "idle"
IdleMap ==
    /\ files = <<>> /\ disk = {} /\ pending = {} /\ results = <<>>
    /\ completed = 0 /\ live = FALSE /\ mapCalls = <<>> /\ history = <<>>
    /\ mpc = "idle"

----------------------------------------------------------------------------
(* Strings                                                                  *)

DQ == "\""
SP == " "

\* the characters selectors are drawn from
Chars == {"a", ":", DQ, SP, "/", "*"}

RECURSIVE StringsOfLen(_)
StringsOfLen(n) ==
    IF n = 0 THEN {<<>>}
    ELSE {Append(s, c) : s \in StringsOfLen(n - 1), c \in Chars}

\* Array.prototype.join
RECURSIVE Join(_, _)
Join(strs, sep) ==
    IF strs = <<>> THEN <<>>
    ELSE IF Len(strs) = 1 THEN strs[1]
    ELSE strs[1] \o sep \o Join(Tail(strs), sep)

\* does `pat` occur in s at (1-based) position i
OccursAt(s, pat, i) ==
    /\ i >= 1
    /\ i + Len(pat) - 1 <= Len(s)
    /\ \A k \in 1..Len(pat) : s[i + k - 1] = pat[k]

Min(S) == CHOOSE x \in S : \A y \in S : x <= y

----------------------------------------------------------------------------
(* The catch block of filterUnusedSelectors: lines 136-147                  *)

\* String(undefined): String.prototype.replace called with one argument
Undefined == <<"u", "n", "d", "e", "f", "i", "n", "e", "d">>

\* the starts i of a match of /\/\*.*?\*\// in s: "/*" at i and a "*/" at or
\* after i + 2 (the model has no line terminator, so . is any character)
CommentStarts(s) ==
    {i \in 1..Len(s) :
        /\ OccursAt(s, <<"/", "*">>, i)
        /\ \E j \in (i + 2)..Len(s) : OccursAt(s, <<"*", "/">>, j)}

\* selector.replace(/\/\*.*?\*\//): the regexp has no g flag, so only the
\* leftmost match is replaced; .*? is lazy, so the match ends at the first
\* "*/"; the replacement argument is missing, so it is "undefined"
ReplaceComment(s) ==
    IF CommentStarts(s) = {} THEN s
    ELSE LET i == Min(CommentStarts(s))
             j == Min({k \in (i + 2)..Len(s) : OccursAt(s, <<"*", "/">>, k)})
         IN  SubSeq(s, 1, i - 1) \o Undefined \o SubSeq(s, j + 2, Len(s))

\* the position of the next double quote after position i, or 0
NextQuote(s, i) ==
    LET Q == {k \in (i + 1)..Len(s) : s[k] = DQ}
    IN  IF Q = {} THEN 0 ELSE Min(Q)

\* s.match(/(?:X+|"[^"]*")+/g) where X is a character not in `excluded` and
\* not a double quote: every maximal run of such characters and of quoted
\* substrings, from left to right.  cur is the match being extended.
RECURSIVE Scan(_, _, _, _, _)
Scan(s, excluded, i, cur, out) ==
    LET flushed == IF cur = <<>> THEN out ELSE Append(out, cur)
    IN  IF i > Len(s) THEN flushed
        ELSE IF s[i] = DQ
             THEN IF NextQuote(s, i) # 0
                  THEN Scan(s, excluded, NextQuote(s, i) + 1,
                            cur \o SubSeq(s, i, NextQuote(s, i)), out)
                  ELSE Scan(s, excluded, i + 1, <<>>, flushed)
        ELSE IF s[i] \in excluded
             THEN Scan(s, excluded, i + 1, <<>>, flushed)
        ELSE Scan(s, excluded, i + 1, Append(cur, s[i]), out)

\* String.prototype.match with a g regexp: the matches, or null (here <<>>,
\* which no successful match returns)
MatchAll(s, excluded) == Scan(s, excluded, 1, <<>>, <<>>)

\* .match(/(?:[^\s"]+|"[^"]*")+/g)
Tokens(s) == MatchAll(s, {SP})

\* str.match(/(?:[^ :"]+|"[^"]*")+/g)
Pieces(str) == MatchAll(str, {SP, ":"})

\* lines 136-147.  A null from either match makes .map or [0] throw a
\* TypeError, which nothing in filterUnusedSelectors catches.
MapJoin(toks) ==
    IF toks = <<>> \/ \E k \in 1..Len(toks) : Pieces(toks[k]) = <<>>
    THEN [ok |-> FALSE, value |-> <<>>]
    ELSE [ok |-> TRUE,
          value |-> Join([k \in 1..Len(toks) |-> Pieces(toks[k])[1]], <<SP>>)]

Normalize(s) == MapJoin(Tokens(ReplaceComment(s)))


----------------------------------------------------------------------------
(* The objects filterUnusedRules works on                                   *)

\* a node of css.parse's tree; `selectors` of a rule, `media` and `rules` of
\* a media block; any other type (keyframes, font-face, comment) has neither
RuleNode(sels) ==
    [type |-> "rule", selectors |-> sels, media |-> "", rules |-> <<>>]
MediaNode(cond, rs) ==
    [type |-> "media", selectors |-> <<>>, media |-> cond, rules |-> rs]
OtherNode ==
    [type |-> "keyframes", selectors |-> <<>>, media |-> "", rules |-> <<>>]

\* an entry of the ignore list: a string, or a RegExp object with its
\* source (a literal text, matched anywhere), its g flag and its lastIndex
StringEntry(s) ==
    [regexp |-> FALSE, source |-> s, global |-> FALSE, lastIndex |-> 0]
RegExpEntry(src, g) ==
    [regexp |-> TRUE, source |-> src, global |-> g, lastIndex |-> 0]

\* doms[i](q): the query engine raises on what it cannot parse, and parses
\* a type selector (letters only); a DOM is the set of its elements' tag names
Letters == {"a", "h", "m"}
IsTypeSelector(q) == q # <<>> /\ \A k \in 1..Len(q) : q[k] \in Letters
Query(dom, q) ==
    IF ~IsTypeSelector(q) THEN [raised |-> TRUE, length |-> 0]
    ELSE [raised |-> FALSE, length |-> IF q \in dom THEN 1 ELSE 0]

----------------------------------------------------------------------------
(* filterUnusedSelectors: lines 105-162                                     *)

\* RegExp.prototype.test: a g RegExp searches from its lastIndex and leaves
\* the end of the match there, or 0 when it fails
Test(e, s) ==
    LET from == IF e.global THEN e.lastIndex ELSE 0
        hits == {i \in 1..Len(s) : i - 1 >= from /\ OccursAt(s, e.source, i)}
    IN  IF hits = {} THEN [found |-> FALSE, lastIndex |-> 0]
        ELSE [found |-> TRUE,
              lastIndex |-> IF e.global THEN Min(hits) - 1 + Len(e.source)
                            ELSE e.lastIndex]

\* line 118: ignore.indexOf(selector) !== -1 (strict equality: a string)
IndexOfHit(ign, s) ==
    \E j \in 1..Len(ign) : ~ign[j].regexp /\ ign[j].source = s

\* lines 122-127, from entry j on: the ignore list after the tests, and
\* whether one of them returned true
RECURSIVE RegExpLoop(_, _, _)
RegExpLoop(ign, s, j) ==
    IF j > Len(ign) THEN [hit |-> FALSE, ign |-> ign]
    ELSE IF ~ign[j].regexp THEN RegExpLoop(ign, s, j + 1)
    ELSE LET t == Test(ign[j], s)
             ign2 == [ign EXCEPT ![j].lastIndex = t.lastIndex]
         IN  IF t.found THEN [hit |-> TRUE, ign |-> ign2]
             ELSE RegExpLoop(ign2, s, j + 1)

\* lines 130-160, from DOM i on: "keep" (return true), "drop" (return false)
\* or "throw" (the TypeError of the catch block leaves the function)
RECURSIVE DomLoop(_, _, _)

\* lines 156-158: if (match.length !== 0) return true; else the next DOM
AfterMatch(ds, s, i, length) ==
    IF length # 0 THEN "keep" ELSE DomLoop(ds, s, i + 1)

\* lines 149-154: the second query's result; a raise is "Gracefully give up"
AfterRetry(ds, s, i, again) ==
    IF again.raised THEN "keep" ELSE AfterMatch(ds, s, i, again.length)

\* lines 136-150: temp is computed, outside any try, and queried
AfterNormalize(ds, s, i, n) ==
    IF ~n.ok THEN "throw" ELSE AfterRetry(ds, s, i, Query(ds[i], n.value))

\* lines 132-134: the raw query's result
AfterRaw(ds, s, i, raw) ==
    IF raw.raised THEN AfterNormalize(ds, s, i, Normalize(s))
    ELSE AfterMatch(ds, s, i, raw.length)

DomLoop(ds, s, i) ==
    IF i > Len(ds) THEN "drop" ELSE AfterRaw(ds, s, i, Query(ds[i], s))

\* lines 129-160, once the RegExp loop r has run
AfterRegExps(ds, s, r) ==
    [verdict |-> IF r.hit THEN "keep" ELSE DomLoop(ds, s, 1), ign |-> r.ign]

\* the filter callback, lines 112-161, for one selector
KeepSelector(ds, ign, s) ==
    IF s # <<>> /\ s[1] = "@" THEN [verdict |-> "keep", ign |-> ign]
    ELSE IF IndexOfHit(ign, s) THEN [verdict |-> "keep", ign |-> ign]
    ELSE AfterRegExps(ds, s, RegExpLoop(ign, s, 1))

\* selectors.filter(...), from selector k on; kept is what has passed
RECURSIVE FilterFrom(_, _, _, _, _)

\* the callback's answer r for selector k
Filtered(ds, sels, k, kept, r) ==
    IF r.verdict = "throw"
    THEN [thrown |-> TRUE, selectors |-> kept, ign |-> r.ign]
    ELSE FilterFrom(ds, r.ign, sels, k + 1,
                    IF r.verdict = "keep" THEN Append(kept, sels[k]) ELSE kept)

FilterFrom(ds, ign, sels, k, kept) ==
    IF k > Len(sels) THEN [thrown |-> FALSE, selectors |-> kept, ign |-> ign]
    ELSE Filtered(ds, sels, k, kept, KeepSelector(ds, ign, sels[k]))

filterUnusedSelectors(ds, sels, ign) == FilterFrom(ds, ign, sels, 1, <<>>)

----------------------------------------------------------------------------
(* filterUnusedRules: lines 171-206                                         *)

\* KeepRule without its first test: a rule left with no selector stays
KeepRuleEmptyRules(node) ==
    IF node.type = "media" /\ Len(node.rules) = 0 THEN FALSE
    ELSE TRUE

\* KeepRule without its second test: a media block left empty stays
KeepRuleEmptyMedia(node) ==
    IF node.type = "rule" /\ Len(node.selectors) = 0 THEN FALSE
    ELSE TRUE

\* the callback of rules.filter, lines 194-204, on the node as it is now
KeepRule(node) ==
    IF node.type = "rule" /\ Len(node.selectors) = 0 THEN FALSE
    ELSE IF node.type = "media" /\ Len(node.rules) = 0 THEN FALSE
    ELSE TRUE

\* rules.filter(...), lines 194-204
SelectIds(h, ids) == SelectSeq(ids, LAMBDA id : KeepRule(h[id]))

\* st is [thrown, heap, ign, rules]: rules.forEach (lines 180-192) from
\* node k of `ids` on, then rules.filter; a throw ends the call where it is
RECURSIVE ForEachFrom(_, _, _, _)

\* lines 182-183: rule.selectors = f.selectors, unless the filter threw
AssignSelectors(st, id, f) ==
    [thrown |-> f.thrown,
     heap |-> IF f.thrown THEN st.heap
              ELSE [st.heap EXCEPT ![id].selectors = f.selectors],
     ign |-> f.ign,
     rules |-> <<>>]

\* lines 186-190: rule.rules = inner.stylesheet.rules, unless the call threw
AssignRules(id, inner) ==
    [thrown |-> inner.thrown,
     heap |-> IF inner.thrown THEN inner.heap
              ELSE [inner.heap EXCEPT ![id].rules = inner.rules],
     ign |-> inner.ign,
     rules |-> <<>>]

\* the callback of rules.forEach, lines 180-192, on node id
Visit(ds, st, id) ==
    IF st.heap[id].type = "rule"
    THEN AssignSelectors(st, id,
             filterUnusedSelectors(ds, st.heap[id].selectors, st.ign))
    ELSE IF st.heap[id].type = "media"
    THEN AssignRules(id, ForEachFrom(ds, st, st.heap[id].rules, 1))
    ELSE st

ForEachFrom(ds, st, ids, k) ==
    IF st.thrown THEN st
    ELSE IF k > Len(ids)
    THEN [st EXCEPT !.rules = SelectIds(st.heap, ids)]
    ELSE ForEachFrom(ds, Visit(ds, st, ids[k]), ids, k + 1)

filterUnusedRules(ds, h, ids, ign) ==
    ForEachFrom(ds, [thrown |-> FALSE, heap |-> h, ign |-> ign, rules |-> <<>>],
                ids, 1)

----------------------------------------------------------------------------
(* The inputs of the engine                                                 *)

\* the selectors of the stylesheets: a type selector, one with a pseudo-class
\* (the query raises, the fallback is "a"), one the engine parses in neither
\* form, one the catch block cannot normalize, and an at-rule prelude
Sels == {<<"a">>, <<"a", ":", "h">>, <<"!">>, <<":">>, <<"@", "m">>}

Entries == {StringEntry(<<"a">>), RegExpEntry(<<"a">>, FALSE),
            RegExpEntry(<<"a">>, TRUE)}

Doms == SUBSET {<<"a">>}

RECURSIVE SeqsOfLen(_, _)
SeqsOfLen(S, n) ==
    IF n = 0 THEN {<<>>}
    ELSE {Append(q, x) : q \in SeqsOfLen(S, n - 1), x \in S}

\* the trees css.parse can build, by size: a node counts 1, a selector 1
RECURSIVE Forest(_)
RECURSIVE NodesOfSize(_)
NodesOfSize(w) ==
    (IF w = 1 THEN {OtherNode} ELSE {})
    \cup (IF w >= 2 THEN {RuleNode(q) : q \in SeqsOfLen(Sels, w - 1)} ELSE {})
    \cup {MediaNode("screen", f) : f \in Forest(w - 1)}
Forest(n) ==
    IF n = 0 THEN {<<>>}
    ELSE UNION {{<<x>> \o f : x \in NodesOfSize(w), f \in Forest(n - w)} :
                   w \in 1..n}

\* the parser's allocation of a tree: every node a fresh object
RECURSIVE Alloc(_, _, _)
Alloc(h, nodes, k) ==
    IF k > Len(nodes) THEN [heap |-> h, ids |-> <<>>]
    ELSE LET inner == Alloc(h, nodes[k].rules, 1)
             h2 == Append(inner.heap, [nodes[k] EXCEPT !.rules = inner.ids])
             rest == Alloc(h2, nodes, k + 1)
         IN  [heap |-> rest.heap, ids |-> <<Len(h2)>> \o rest.ids]

\* the tree a sequence of node identities stands for
RECURSIVE Tree(_, _)
Tree(h, ids) ==
    [k \in 1..Len(ids) |-> [h[ids[k]] EXCEPT !.rules = Tree(h, h[ids[k]].rules)]]

\* the identities of the nodes of a tree, at every depth
RECURSIVE NodesIn(_, _)
NodesIn(h, ids) ==
    UNION {{ids[k]} \cup NodesIn(h, h[ids[k]].rules) : k \in 1..Len(ids)}

----------------------------------------------------------------------------
(* SpecNorm: the catch block applied to every selector of length <= MaxLen  *)

MaxLen == 4

InitNorm ==
    /\ IdleEngine /\ IdleExtract /\ IdlePhantom /\ IdleMap
    /\ selector \in UNION {StringsOfLen(n) : n \in 0..MaxLen}
    /\ temp = NoTemp
    /\ npc = "caught"

\* lines 134-147: the raw query has raised, temp is computed
CatchRaw ==
    /\ npc = "caught"
    /\ temp' = Normalize(selector)
    /\ npc' = IF Normalize(selector).ok THEN "done" ELSE "TypeError"
    /\ UNCHANGED <<selector, engineVars, extractVars, phantomVars, mapVars>>

NextNorm == CatchRaw

SpecNorm == InitNorm /\ [][NextNorm]_vars

\* the selector with every comment taken out
RECURSIVE StripComments(_)
StripComments(s) ==
    IF CommentStarts(s) = {} THEN s
    ELSE LET i == Min(CommentStarts(s))
             j == Min({k \in (i + 2)..Len(s) : OccursAt(s, <<"*", "/">>, k)})
         IN  StripComments(SubSeq(s, 1, i - 1) \o SubSeq(s, j + 2, Len(s)))

\* the token up to its first ':' outside a quoted substring, from position i
RECURSIVE TruncateFrom(_, _)
TruncateFrom(tok, i) ==
    IF i > Len(tok) THEN tok
    ELSE IF tok[i] = DQ /\ NextQuote(tok, i) # 0
    THEN TruncateFrom(tok, NextQuote(tok, i) + 1)
    ELSE IF tok[i] = ":" THEN SubSeq(tok, 1, i - 1)
    ELSE TruncateFrom(tok, i + 1)

\* the normalization of the specification: comments removed, whitespace
\* separated tokens with quoted substrings atomic, each cut at its first
\* unquoted ':', joined by single spaces
Normalized(s) ==
    LET toks == Tokens(StripComments(s))
    IN  Join([k \in 1..Len(toks) |-> TruncateFrom(toks[k], 1)], <<SP>>)

\* C7: the fallback selector is the input with its comments removed and
\* every whitespace-separated token cut at its first unquoted ':'
C7_FallbackIsNormalized ==
    npc = "done" => temp.value = Normalized(selector)
----------------------------------------------------------------------------
(* Spec: filterUnusedRules called on every input of size <= MaxSize, and    *)
(* called again on the stylesheet it returned                               *)

MaxSize == 5

Init ==
    /\ IdleNorm /\ IdleExtract /\ IdlePhantom /\ IdleMap
    /\ pc = "ready"
    /\ \E t \in 0..MaxSize, d \in 0..MaxSize, g \in 0..MaxSize :
          /\ t + d + g <= MaxSize
          /\ doms \in SeqsOfLen(Doms, d)
          /\ ignore \in SeqsOfLen(Entries, g)
          /\ \E parsed \in {Alloc(<<>>, tree, 1) : tree \in Forest(t)} :
                /\ heap = parsed.heap
                /\ stylesheet = parsed.ids
    /\ before = [heap |-> heap, ignore |-> ignore, doms |-> doms]
    /\ result = <<>>
    /\ second = <<>>
    /\ first = <<>>

\* filterUnusedRules(doms, stylesheet, ignore), lines 171-206
Call ==
    /\ pc = "ready"
    /\ \E r \in {filterUnusedRules(doms, heap, stylesheet, ignore)} :
          /\ heap' = r.heap
          /\ ignore' = r.ign
          /\ result' = r.rules
          /\ first' = Tree(r.heap, r.rules)
          /\ pc' = IF r.thrown THEN "thrown" ELSE "returned"
    /\ UNCHANGED <<stylesheet, doms, second, before>>
    /\ UNCHANGED <<normVars, extractVars, phantomVars, mapVars>>

\* filterUnusedRules(doms, <the stylesheet returned>, ignore)
CallAgain ==
    /\ pc = "returned"
    /\ \E r \in {filterUnusedRules(doms, heap, result, ignore)} :
          /\ heap' = r.heap
          /\ ignore' = r.ign
          /\ second' = r.rules
          /\ pc' = IF r.thrown THEN "thrown2" ELSE "returned2"
    /\ UNCHANGED <<stylesheet, doms, result, first, before>>
    /\ UNCHANGED <<normVars, extractVars, phantomVars, mapVars>>

Next == Call \/ CallAgain

Spec == Init /\ [][Next]_vars

----------------------------------------------------------------------------
(* What the claims speak of                                                 *)

Range(q) == {q[k] : k \in 1..Len(q)}

\* the nodes of the caller's tree, and those of the tree returned
InputNodes == NodesIn(before.heap, stylesheet)
OutputNodes == NodesIn(heap, result)

\* s equals a literal entry, or a pattern entry's text occurs in s
IgnoredBy(s, ign) ==
    \E j \in 1..Len(ign) :
        \/ ~ign[j].regexp /\ ign[j].source = s
        \/ ign[j].regexp /\ \E i \in 1..Len(s) : OccursAt(s, ign[j].source, i)

\* s matches in dom: directly, or through its normalized form
MatchesIn(dom, s) ==
    \/ ~Query(dom, s).raised /\ Query(dom, s).length # 0
    \/ /\ Query(dom, s).raised
       /\ Normalize(s).ok
       /\ ~Query(dom, Normalize(s).value).raised
       /\ Query(dom, Normalize(s).value).length # 0

\* the query of s in dom, or of its normalized form when that one raises,
\* returns and finds nothing
EmptyIn(dom, s) ==
    \/ ~Query(dom, s).raised /\ Query(dom, s).length = 0
    \/ /\ Query(dom, s).raised
       /\ Normalize(s).ok
       /\ ~Query(dom, Normalize(s).value).raised
       /\ Query(dom, Normalize(s).value).length = 0

InputRules == {id \in InputNodes : before.heap[id].type = "rule"}
InputMedia == {id \in InputNodes : before.heap[id].type = "media"}

\* s neither matches in a DOM snapshot nor is ignored
Unmatched(s) ==
    /\ ~IgnoredBy(s, before.ignore)
    /\ \A i \in 1..Len(doms) : ~MatchesIn(doms[i], s)

\* C1, as stated: a rule all of whose selectors neither match any DOM
\* snapshot nor are ignored is absent from the output
C1_UnusedRuleAbsent ==
    pc = "returned" =>
        \A id \in InputRules :
            (\A s \in Range(before.heap[id].selectors) : Unmatched(s))
            => id \notin OutputNodes

\* s is no at-rule prelude, is not ignored, and is found in no DOM snapshot
\* by a query that returns
Unused(s) ==
    /\ ~(s # <<>> /\ s[1] = "@")
    /\ ~IgnoredBy(s, before.ignore)
    /\ \A i \in 1..Len(doms) : EmptyIn(doms[i], s)

\* C1, amended: a rule is absent from the output when none of its selectors
\* begins with '@' or is ignored, and each one's query (raw, or of the
\* normalized form when the raw one raises) returns an empty result in
\* every DOM snapshot
C1_UnusedRuleAbsentAmended ==
    pc \in {"returned", "thrown"} =>
        \A id \in InputRules :
            (\A s \in Range(before.heap[id].selectors) : Unused(s))
            => id \notin OutputNodes

\* a rule was dropped whose selectors were queried in a DOM, while another
\* node of the same call was kept
C1_Witness ==
    /\ pc = "returned"
    /\ Len(doms) >= 1
    /\ result # <<>>
    /\ \E id \in InputRules :
          /\ id \notin OutputNodes
          /\ \A s \in Range(before.heap[id].selectors) : Unused(s)

\* C2: no exception escapes filterUnusedRules
C2_NoExceptionEscapes == pc # "thrown"

\* C3: the call leaves the caller's tree, DOM list and ignore list as they
\* were
C3_InputsUnchanged ==
    pc = "returned" =>
        /\ heap = before.heap
        /\ ignore = before.ignore
        /\ doms = before.doms

\* C4: a rule with a selector that equals a literal ignore entry or is
\* matched by a pattern entry is in the output, that selector in its list
C4_IgnoreSupremacy ==
    pc = "returned" =>
        \A id \in InputRules :
            \A s \in Range(before.heap[id].selectors) :
                IgnoredBy(s, before.ignore)
                => id \in OutputNodes /\ s \in Range(heap[id].selectors)

\* C5: the call on the returned stylesheet returns a tree equal to the
\* first result
C5_Idempotent ==
    pc \in {"returned2", "thrown2"} =>
        pc = "returned2" /\ Tree(heap, second) = first

\* a nested node counts as surviving when the call left it non-empty
Surviving(id) ==
    IF heap[id].type = "rule" THEN heap[id].selectors # <<>>
    ELSE IF heap[id].type = "media" THEN heap[id].rules # <<>>
    ELSE TRUE

\* the sequences the call filtered, as <<before, after>>: the top level and
\* the nested sequence of every media block
Filterings ==
    {<<stylesheet, result>>}
    \cup {<<before.heap[m].rules, heap[m].rules>> : m \in InputMedia}

\* C6: a media block is in the output iff its nested sequence is non-empty
\* after pruning; it keeps its condition and holds exactly the surviving
\* nested nodes, in input order; at every depth
C6_NestedPruning ==
    pc = "returned" =>
        /\ \A m \in InputMedia :
              /\ heap[m].type = "media"
              /\ heap[m].media = before.heap[m].media
              /\ heap[m].rules =
                     SelectSeq(before.heap[m].rules, LAMBDA c : Surviving(c))
        /\ \A f \in Filterings :
              \A m \in Range(f[1]) :
                  before.heap[m].type = "media"
                  => (m \in Range(f[2]) <=> heap[m].rules # <<>>)

\* a media block nested in a media block is returned without one of its
\* rules, which no selector was left in
C6_Witness ==
    /\ pc = "returned"
    /\ \E outer \in InputMedia :
          \E m \in Range(before.heap[outer].rules) :
              /\ before.heap[m].type = "media"
              /\ m \in OutputNodes
              /\ \E c \in Range(before.heap[m].rules) :
                    /\ before.heap[c].type = "rule"
                    /\ c \notin Range(heap[m].rules)

----------------------------------------------------------------------------
(* extractStylesheets: lines 81-96                                          *)

\* an attribute an element does not have
Absent == "(absent)"

\* an element of the page
Element(tag, rel, media, href) ==
    [tag |-> tag, rel |-> rel, media |-> media, href |-> href]

\* _.union(a, b): the values of a then those of b, each once
RECURSIVE Union(_, _)
Union(a, b) ==
    IF b = <<>> THEN a
    ELSE Union(IF b[1] \in {a[k] : k \in 1..Len(a)} THEN a
               ELSE Append(a, b[1]), Tail(b))

\* one selector of the group built at lines 86-88: a type selector and
\* attribute tests, with an optional :not(<type selector>)
Compound(tag, rel, media, notTag) ==
    [tag |-> tag, rel |-> rel, media |-> media, notTag |-> notTag]

\* line 86: 'link[rel="stylesheet"]:not(media)': the argument of :not is the
\* type selector `media`, not the attribute selector [media]
NotMedia == Compound("link", "stylesheet", Absent, "media")

\* line 87: 'link[rel="stylesheet"]' + '[media="' + selector + '"]'
WithMedia(m) == Compound("link", "stylesheet", m, Absent)

\* lines 82-88: the selector group handed to the DOM
MediaGroup(opts) ==
    LET media == Union(<<"screen", "all">>, opts)
    IN  <<NotMedia>> \o [k \in 1..Len(media) |-> WithMedia(media[k])]

\* the selector engine: el matches the compound selector c
MatchesCompound(el, c) ==
    /\ el.tag = c.tag
    /\ el.rel = c.rel
    /\ c.media # Absent => el.media = c.media
    /\ c.notTag # Absent => el.tag # c.notTag

\* dom(group): the elements that match a selector of the group, in
\* document order
Select(dom, group) ==
    SelectSeq(dom, LAMBDA el :
        \E k \in 1..Len(group) : MatchesCompound(el, group[k]))

extractStylesheets(dom, opts) ==
    LET stylesheets == Select(dom, MediaGroup(opts))
    IN  [k \in 1..Len(stylesheets) |-> stylesheets[k].href]

(* SpecExtract: extractStylesheets on every page of <= MaxLinks elements    *)

MaxLinks == 2

Elements ==
    {Element("link", rel, media, href) :
        rel \in {"stylesheet", "icon"},
        media \in {Absent, "screen", "print", "tv"},
        href \in {"x.css", "y.css"}}

MediaOptions == {<<>>, <<"print">>, <<"tv">>, <<"screen", "print">>}

InitExtract ==
    /\ IdleNorm /\ IdleEngine /\ IdlePhantom /\ IdleMap
    /\ page \in UNION {SeqsOfLen(Elements, n) : n \in 0..MaxLinks}
    /\ options \in MediaOptions
    /\ hrefs = <<>>
    /\ xpc = "ready"

Extract ==
    /\ xpc = "ready"
    /\ hrefs' = extractStylesheets(page, options)
    /\ xpc' = "returned"
    /\ UNCHANGED <<page, options, normVars, engineVars, phantomVars, mapVars>>

NextExtract == Extract

SpecExtract == InitExtract /\ [][NextExtract]_vars

\* the media values a stylesheet link may carry to be extracted
Accepted(opts) == {Absent, "screen", "all"} \cup Range(opts)

\* C8: the result is, in document order, the href of exactly the stylesheet
\* links whose media attribute is absent, 'screen', 'all' or configured
C8_OnlyAcceptedMedia ==
    xpc = "returned" =>
        LET wanted == SelectSeq(page, LAMBDA el :
                          /\ el.tag = "link"
                          /\ el.rel = "stylesheet"
                          /\ el.media \in Accepted(options))
        IN  hrefs = [k \in 1..Len(wanted) |-> wanted[k].href]

----------------------------------------------------------------------------
(* phantom_eval: lines 17-45                                                *)

\* null; every error value and every text is a sequence too
Null == <<"null">>

\* the text of a diagnostic is a sequence of pieces; the two known ones
OSXWarning == "WARNING: Method userSpaceScaleFactor"
PerformanceNote == "CoreText performance note:"

\* String.prototype.indexOf(piece) !== -1
Contains(text, piece) == \E k \in 1..Len(text) : text[k] = piece

\* child_process.execFile hands its callback null or an Error object
IsError(err) == err # Null

\* the callback of execFile, lines 24-44: what it does with (err, stdout,
\* stderr).  (err || stderr || '') is err when err is an Error, and an Error
\* has no indexOf: the call at line 26 throws a TypeError.
Classify(err, stdout, stderr) ==
    IF IsError(err) THEN [thrown |-> TRUE, call |-> <<>>]
    ELSE LET isNot192OSXError == ~Contains(stderr, OSXWarning)
             isNotPerformanceNote == ~Contains(stderr, PerformanceNote)
         IN  IF stderr # <<>> /\ isNot192OSXError /\ isNotPerformanceNote
             THEN [thrown |-> FALSE, call |-> <<[err |-> stderr, out |-> <<>>]>>]
             ELSE [thrown |-> FALSE, call |-> <<[err |-> Null, out |-> stdout]>>]

(* SpecPhantom: one render, every outcome of the child process              *)

MaxStderr == 2

InitPhantom ==
    /\ IdleNorm /\ IdleEngine /\ IdleExtract /\ IdleMap
    /\ child \in
          [err : {Null, <<"Error", "Command failed">>,
                  <<"Error", "maxBuffer exceeded">>},
           stdout : {<<>>, <<"<html>">>},
           stderr : UNION {SeqsOfLen({OSXWarning, PerformanceNote, "boom"}, n) :
                              n \in 0..MaxStderr}]
    /\ calls = <<>>
    /\ ppc = "running"

\* the child process ends: execFile calls back
ExecFileCallback ==
    /\ ppc = "running"
    /\ \E c \in {Classify(child.err, child.stdout, child.stderr)} :
          /\ calls' = calls \o c.call
          /\ ppc' = IF c.thrown THEN "TypeError" ELSE "done"
    /\ UNCHANGED <<child, normVars, engineVars, extractVars, mapVars>>

NextPhantom == ExecFileCallback

SpecPhantom == InitPhantom /\ [][NextPhantom]_vars

\* C9: once execFile has called back, phantom_eval's callback has been
\* called exactly once: with a failure when the process reported an error
\* or wrote a diagnostic that is not a known-benign one, with (null, stdout)
\* otherwise
C9_CallbackOnce ==
    ppc # "running" =>
        /\ Len(calls) = 1
        /\ IF \/ child.err # Null
              \/ /\ child.stderr # <<>>
                 /\ ~Contains(child.stderr, OSXWarning)
                 /\ ~Contains(child.stderr, PerformanceNote)
           THEN calls[1].err # Null
           ELSE calls[1] = [err |-> Null, out |-> child.stdout]

----------------------------------------------------------------------------
(* mapReadFiles: lines 53-73                                                *)

\* filename.match(/^http/)
IsRemote(filename) == Len(filename) >= 1 /\ filename[1] = "http"

\* what a read or a request yields for a source
Content(filename) == <<"content of">> \o filename

\* line 70: 'Error - could not open: ' + path.join(process.cwd(), filename)
CouldNotOpen(filename) == <<"Error - could not open: ", "cwd">> \o filename

\* undefined: the value of results[i] before iteration i has called back
Hole == <<"(hole)">>

\* async.map's results[x.index] = v
Store(res, i, v) ==
    [k \in 1..Len(res) |-> IF k = i THEN v ELSE res[k]]

\* async.map's state st = [results, completed, live, calls] after iteration
\* i has called done(err, v): results[i] = v; on an error the callback is
\* called and replaced by a no-op; else the count goes up and the last
\* iteration calls the callback
Done(st, total, i, err, v) ==
    LET res == Store(st.results, i, v)
    IN  IF err # Null
        THEN [results |-> res, completed |-> st.completed, live |-> FALSE,
              calls |-> IF st.live
                        THEN Append(st.calls, [err |-> err, results |-> res])
                        ELSE st.calls]
        ELSE [results |-> res, completed |-> st.completed + 1, live |-> st.live,
              calls |-> IF st.live /\ st.completed + 1 >= total
                        THEN Append(st.calls, [err |-> Null, results |-> res])
                        ELSE st.calls]

\* the iterator, lines 54-72, on source i, for i, i + 1, ...: a request or a
\* read is started, or done is called at once for a local file that does not
\* exist.  st also carries the indexes started and the history.
RECURSIVE Iterate(_, _, _, _)
Iterate(fs, dsk, st, i) ==
    IF i > Len(fs) THEN st
    ELSE IF IsRemote(fs[i]) \/ fs[i] \in dsk
    THEN Iterate(fs, dsk, [st EXCEPT !.pending = st.pending \cup {i}], i + 1)
    ELSE Iterate(fs, dsk,
             Done(st, Len(fs), i, CouldNotOpen(fs[i]), Hole)
                 @@ [pending |-> st.pending,
                     history |-> Append(st.history,
                                        [index |-> i,
                                         err |-> CouldNotOpen(fs[i])])],
             i + 1)

\* async.map(files, iterator, callback): an empty array calls back at once
Start(fs, dsk) ==
    IF fs = <<>>
    THEN [results |-> <<>>, completed |-> 0, live |-> FALSE, pending |-> {},
          history |-> <<>>,
          calls |-> <<[err |-> Null, results |-> <<>>]>>]
    ELSE Iterate(fs, dsk,
             [results |-> [k \in 1..Len(fs) |-> Hole], completed |-> 0,
              live |-> TRUE, calls |-> <<>>, pending |-> {}, history |-> <<>>],
             1)

(* SpecMap: mapReadFiles on every list of <= MaxFiles sources; the reads    *)
(* and requests complete in any order, each with or without an error        *)

MaxFiles == 3

Remote == {<<"http", "x">>, <<"http", "y">>}
Local == {<<"a.css">>, <<"b.css">>}

InitMap ==
    /\ IdleNorm /\ IdleEngine /\ IdleExtract /\ IdlePhantom
    /\ files \in UNION {SeqsOfLen(Remote \cup Local, n) : n \in 0..MaxFiles}
    /\ disk \in SUBSET Local
    /\ pending = {}
    /\ results = <<>>
    /\ completed = 0
    /\ live = FALSE
    /\ mapCalls = <<>>
    /\ history = <<>>
    /\ mpc = "ready"

\* mapReadFiles(files, callback), up to its return
MapReadFiles ==
    /\ mpc = "ready"
    /\ \E st \in {Start(files, disk)} :
          /\ results' = st.results
          /\ completed' = st.completed
          /\ live' = st.live
          /\ mapCalls' = st.calls
          /\ pending' = st.pending
          /\ history' = st.history
    /\ mpc' = "started"
    /\ UNCHANGED <<files, disk, normVars, engineVars, extractVars, phantomVars>>

\* a request that failed is passed on as done(null, body)
RequestDoneDropsError(err, body) == [err |-> Null, v |-> body]

\* lines 59-64: request's callback (err, res, body) calls done(err) or
\* done(null, body)
RequestDone(err, body) ==
    IF err # Null THEN [err |-> err, v |-> Hole] ELSE [err |-> Null, v |-> body]

\* line 68: done is readFile's callback itself
ReadFileDone(err, data) == [err |-> err, v |-> data]

\* iteration i ends with the outcome err of its read or request, and calls
\* done(args.err, args.v)
Completes(i, err, args) ==
    /\ \E st \in {Done([results |-> results, completed |-> completed,
                        live |-> live, calls |-> mapCalls],
                       Len(files), i, args.err, args.v)} :
          /\ results' = st.results
          /\ completed' = st.completed
          /\ live' = st.live
          /\ mapCalls' = st.calls
    /\ pending' = pending \ {i}
    /\ history' = Append(history, [index |-> i, err |-> err])
    /\ UNCHANGED <<files, disk, mpc>>
    /\ UNCHANGED <<normVars, engineVars, extractVars, phantomVars>>

\* lines 59-64: request calls back, with a transport error or with the body
RequestCallback ==
    \E i \in pending :
        /\ IsRemote(files[i])
        /\ \E err \in {Null, <<"transport error">> \o files[i]} :
              Completes(i, err,
                  RequestDone(err, IF err = Null THEN Content(files[i])
                                   ELSE Hole))

\* line 68: fs.readFile calls done itself, with its error or with the text
ReadFileCallback ==
    \E i \in pending :
        /\ ~IsRemote(files[i])
        /\ \E err \in {Null, <<"EACCES">> \o files[i]} :
              Completes(i, err,
                  ReadFileDone(err, IF err = Null THEN Content(files[i])
                                    ELSE Hole))

NextMap == MapReadFiles \/ RequestCallback \/ ReadFileCallback

SpecMap == InitMap /\ [][NextMap]_vars

\* the errors so far, in the order they happened
Failures == SelectSeq(history, LAMBDA h : h.err # Null)

\* C10: the callback is called at most once, and exactly once when every
\* read and request has completed; with the contents in the order of the
\* sources when all succeeded; with the failure (the first one) when a
\* source failed, 'could not open' naming the path for a missing local file
C10_OrderedJoin ==
    /\ Len(mapCalls) <= 1
    /\ mpc = "started" /\ pending = {} => Len(mapCalls) = 1
    /\ Failures # <<>> => Len(mapCalls) = 1 /\ mapCalls[1].err = Failures[1].err
    /\ \A k \in 1..Len(history) :
          ~IsRemote(files[history[k].index]) /\ files[history[k].index] \notin disk
          => history[k].err = CouldNotOpen(files[history[k].index])
    /\ Len(mapCalls) = 1 /\ Failures = <<>> =>
          /\ mapCalls[1].err = Null
          /\ pending = {}
          /\ mapCalls[1].results = [k \in 1..Len(files) |-> Content(files[k])]

\* two different sources have completed in another order than the
\* caller's, and the callback has the contents
C10_Witness ==
    /\ Len(mapCalls) = 1
    /\ mapCalls[1].err = Null
    /\ Len(files) >= 2
    /\ files[1] # files[2]
    /\ history[1].index # 1

=============================================================================
